---- MODULE Spec2Model ----
(***************************************************************************)
(* github-archiver: the driver (main), the inactivity analyzer             *)
(* (Analyzer.FindInactiveRepositories), the archive transaction            *)
(* (Archiver.ArchiveRepository) and the client calls they make, with the   *)
(* remote host reduced to the facts the calls read and write.              *)
(*                                                                         *)
(* Time is counted in whole units of the threshold flag (years).  An error *)
(* value is a string; NoErr is Go's nil error.                             *)
(***************************************************************************)
EXTENDS Integers, Sequences, FiniteSets, TLC

VARIABLES
  FORCE_PROCESSING, \* util.FORCE_PROCESSING, set from --force
  dryRun,           \* the --dry-run flag
  nsExists,         \* host: the archive namespace exists (organization or user)
  host,             \* host: per repository name, [orig, fork, archived]
  pc,               \* position of main
  repos,            \* main: result of ListRepositories
  i,                \* FindInactiveRepositories: loop index (1-based)
  inactiveRepos,    \* FindInactiveRepositories: result under construction / returned
  findErr,          \* FindInactiveRepositories: returned error
  auth,             \* history: per listing index, what the activity lookup met
  lookup,           \* history: the GetLastActivity call of the current loop iteration
  k,                \* main: index of the archive loop (1-based)
  step,             \* position inside ArchiveRepository
  calls,            \* history: remote calls of the current ArchiveRepository call
  before,           \* history: host[repoName] when the current call started
  stepErr,          \* ArchiveRepository: err, the error of the last client call
  archErr,          \* ArchiveRepository: returned error
  results,          \* history: per finished ArchiveRepository call, [name, err, log]
  mutating          \* history: every mutating remote call issued in this run

vars == <<FORCE_PROCESSING, dryRun, nsExists, host, pc, repos, i, inactiveRepos,
          findErr, auth, lookup, k, step, calls, before, stepErr, archErr, results,
          mutating>>

-----------------------------------------------------------------------------
(* Bounds and program constants *)

MaxRepos == 2

Threshold == 2

ZeroTime == 0

Now == Threshold + 2

RepoNames == <<"r1", "r2", "r3", "r4">>

Names == {RepoNames[j] : j \in 1..MaxRepos}

\* timestamps the host can hold: one before, one at and one after the cutoff
Times == {Now - Threshold - 1, Now - Threshold, Now - Threshold + 1}

NoErr == ""

Target == "target"

ArchiveNamespace == "target-archive"

cutoffDate == Now - Threshold

NoHost == [orig |-> FALSE, fork |-> FALSE, archived |-> FALSE]

NoLookup ==
  [made |-> FALSE, fetchOk |-> FALSE, pushedAt |-> ZeroTime, issuesOk |-> FALSE,
   issues |-> <<>>, time |-> ZeroTime, err |-> NoErr]

-----------------------------------------------------------------------------
(* pkg/util *)

\* mutant: the flag is read the wrong way round
ForceProcessingInverted(e) ==
  IF FORCE_PROCESSING THEN e # NoErr ELSE FALSE

\* mutant: the force flag is not consulted
ForceProcessingStrict(e) == e # NoErr

ForceProcessing(e) ==
  IF FORCE_PROCESSING THEN FALSE ELSE e # NoErr

-----------------------------------------------------------------------------
(* pkg/github: Client.GetLastActivity *)

After(t, u) == t > u

Before(t, u) == t < u

\* mutant: a failed Repositories.Get is never reported
GetLastActivityNoError(fetchOk, pushedAt, issuesOk, issues) ==
  LET push == IF fetchOk THEN pushedAt ELSE ZeroTime
      last == IF issuesOk /\ Len(issues) > 0 /\ After(issues[1], push)
              THEN issues[1] ELSE push
  IN  [time |-> last, err |-> NoErr]

\* mutant: the issue time replaces the push time whenever there is an issue
GetLastActivityIssueWins(fetchOk, pushedAt, issuesOk, issues) ==
  IF ForceProcessing(IF fetchOk THEN NoErr ELSE "get")
  THEN [time |-> ZeroTime, err |-> "failed to get repository info"]
  ELSE LET push == IF fetchOk THEN pushedAt ELSE ZeroTime
           last == IF issuesOk /\ Len(issues) > 0 THEN issues[1] ELSE push
       IN  [time |-> last, err |-> NoErr]

\* fetchOk: Repositories.Get succeeded, pushedAt its PushedAt;
\* issuesOk: Issues.ListByRepo succeeded, issues its (at most one) entry's UpdatedAt.
\* A failed Get leaves a nil repository, whose GetPushedAt() is the zero time.
GetLastActivity(fetchOk, pushedAt, issuesOk, issues) ==
  IF ForceProcessing(IF fetchOk THEN NoErr ELSE "get")
  THEN [time |-> ZeroTime, err |-> "failed to get repository info"]
  ELSE LET push == IF fetchOk THEN pushedAt ELSE ZeroTime
           last == IF issuesOk /\ Len(issues) > 0 /\ After(issues[1], push)
                   THEN issues[1] ELSE push
       IN  [time |-> last, err |-> NoErr]

\* The later of the last push and the most recently updated issue or pull
\* request the host holds; the push alone when the issue query gave nothing.
Authoritative(pushedAt, issuesOk, issues) ==
  IF issuesOk /\ Len(issues) > 0 /\ issues[1] > pushedAt THEN issues[1] ELSE pushedAt

-----------------------------------------------------------------------------
(* pkg/github: the calls of the archive transaction.  Each operator takes  *)
(* the outcomes of the remote calls it may make and the host's record h of *)
(* the repository, and gives the returned error, the remote calls made in  *)
(* order, and the host's record afterwards.                                *)

\* by: the function of this repository that makes the call
Call(by, op, owner, name, ok) ==
  [by |-> by, op |-> op, owner |-> owner, name |-> name, ok |-> ok]

CreateArchiveNamespace(namespace, orgOk, userOk) ==
  IF orgOk
  THEN [err |-> NoErr, calls |-> <<Call("CreateArchiveNamespace", "Organizations.Get", namespace, "", TRUE)>>]
  ELSE IF userOk
  THEN [err |-> NoErr,
        calls |-> <<Call("CreateArchiveNamespace", "Organizations.Get", namespace, "", FALSE),
                    Call("CreateArchiveNamespace", "Users.Get", namespace, "", TRUE)>>]
  ELSE [err |-> "archive namespace does not exist",
        calls |-> <<Call("CreateArchiveNamespace", "Organizations.Get", namespace, "", FALSE),
                    Call("CreateArchiveNamespace", "Users.Get", namespace, "", FALSE)>>]

\* mutant: the fork is requested whatever the existence probe said
ForkRepositoryAlways(owner, repo, targetOrg, h, probeOk, createOk) ==
  [err |-> IF ForceProcessing(IF createOk THEN NoErr ELSE "fork")
           THEN "failed to fork repository" ELSE NoErr,
   h |-> IF createOk THEN [h EXCEPT !.fork = TRUE] ELSE h,
   calls |-> <<Call("ForkRepository", "Repositories.Get", targetOrg, repo, probeOk),
               Call("ForkRepository", "Repositories.CreateFork", owner, repo, createOk)>>]

ForkRepository(owner, repo, targetOrg, h, probeOk, createOk) ==
  IF probeOk
  THEN [err |-> NoErr, h |-> h,
        calls |-> <<Call("ForkRepository", "Repositories.Get", targetOrg, repo, TRUE)>>]
  ELSE [err |-> IF ForceProcessing(IF createOk THEN NoErr ELSE "fork")
                THEN "failed to fork repository" ELSE NoErr,
        h |-> IF createOk THEN [h EXCEPT !.fork = TRUE] ELSE h,
        calls |-> <<Call("ForkRepository", "Repositories.Get", targetOrg, repo, FALSE),
                    Call("ForkRepository", "Repositories.CreateFork", owner, repo, createOk)>>]

\* mutant: a failed delete takes the fork back
DeleteRepositoryRollback(owner, repo, h, deleteOk) ==
  [err |-> IF ForceProcessing(IF deleteOk THEN NoErr ELSE "delete")
           THEN "failed to delete repository" ELSE NoErr,
   h |-> IF deleteOk THEN [h EXCEPT !.orig = FALSE] ELSE [h EXCEPT !.fork = FALSE],
   calls |-> <<Call("DeleteRepository", "Repositories.Delete", owner, repo, deleteOk)>>]

DeleteRepository(owner, repo, h, deleteOk) ==
  [err |-> IF ForceProcessing(IF deleteOk THEN NoErr ELSE "delete")
           THEN "failed to delete repository" ELSE NoErr,
   h |-> IF deleteOk THEN [h EXCEPT !.orig = FALSE] ELSE h,
   calls |-> <<Call("DeleteRepository", "Repositories.Delete", owner, repo, deleteOk)>>]

\* mutant: no check of the fetched repository object
SetArchiveStatusUnchecked(owner, repo, archived, h, getOk, editOk) ==
  IF ForceProcessing(IF getOk THEN NoErr ELSE "get")
  THEN [err |-> "failed to get repository info", h |-> h,
        calls |-> <<Call("SetArchiveStatus", "Repositories.Get", owner, repo, FALSE)>>]
  ELSE [err |-> IF ForceProcessing(IF editOk THEN NoErr ELSE "edit")
                THEN "failed to update archive status" ELSE NoErr,
        h |-> IF editOk THEN [h EXCEPT !.archived = archived] ELSE h,
        calls |-> <<Call("SetArchiveStatus", "Repositories.Get", owner, repo, getOk),
                    Call("SetArchiveStatus", "Repositories.Edit", owner, repo, editOk)>>]

\* mutant: the error of the update is not returned
SetArchiveStatusSwallow(owner, repo, archived, h, getOk, editOk) ==
  IF ~getOk
  THEN [err |-> "failed to get repository info", h |-> h,
        calls |-> <<Call("SetArchiveStatus", "Repositories.Get", owner, repo, FALSE)>>]
  ELSE [err |-> NoErr,
        h |-> IF editOk THEN [h EXCEPT !.archived = archived] ELSE h,
        calls |-> <<Call("SetArchiveStatus", "Repositories.Get", owner, repo, TRUE),
                    Call("SetArchiveStatus", "Repositories.Edit", owner, repo, editOk)>>]

\* A failed Repositories.Get returns a nil repository.  On a successful Edit
\* the host's archived flag of the repository becomes `archived`.
SetArchiveStatus(owner, repo, archived, h, getOk, editOk) ==
  IF ForceProcessing(IF getOk THEN NoErr ELSE "get")
  THEN [err |-> "failed to get repository info", h |-> h,
        calls |-> <<Call("SetArchiveStatus", "Repositories.Get", owner, repo, FALSE)>>]
  ELSE IF ~getOk
  THEN [err |-> "repository object is nil", h |-> h,
        calls |-> <<Call("SetArchiveStatus", "Repositories.Get", owner, repo, FALSE)>>]
  ELSE [err |-> IF ForceProcessing(IF editOk THEN NoErr ELSE "edit")
                THEN "failed to update archive status" ELSE NoErr,
        h |-> IF editOk THEN [h EXCEPT !.archived = archived] ELSE h,
        calls |-> <<Call("SetArchiveStatus", "Repositories.Get", owner, repo, TRUE),
                    Call("SetArchiveStatus", "Repositories.Edit", owner, repo, editOk)>>]

IsMutating(c) == c.op \in {"Repositories.CreateFork", "Repositories.Delete", "Repositories.Edit"}

Mutations(cs) == {[op |-> cs[j].op, owner |-> cs[j].owner, name |-> cs[j].name] :
                    j \in {x \in 1..Len(cs) : IsMutating(cs[x])}}

-----------------------------------------------------------------------------
(* Initial state: the flags are parsed, nothing has been called yet *)

Init ==
  /\ FORCE_PROCESSING \in BOOLEAN
  /\ dryRun \in BOOLEAN
  /\ nsExists \in BOOLEAN
  /\ host \in [Names -> [orig : {TRUE},
                         fork : IF nsExists THEN BOOLEAN ELSE {FALSE},
                         archived : {FALSE}]]
  /\ pc = "list"
  /\ repos = <<>>
  /\ i = 0
  /\ inactiveRepos = <<>>
  /\ findErr = NoErr
  /\ auth = <<>>
  /\ lookup = NoLookup
  /\ k = 0
  /\ step = "idle"
  /\ calls = <<>>
  /\ before = NoHost
  /\ stepErr = NoErr
  /\ archErr = NoErr
  /\ results = <<>>
  /\ mutating = {}

-----------------------------------------------------------------------------
(* main: listing *)

\* The listing's timestamp is the host's "updated" field.  The analyzer
\* overwrites it before any read, so one value is enumerated: a recent one.
UpdatedTimes == {Now - 1}

Listings ==
  UNION {[1..n -> [IsArchived : BOOLEAN, LastActivity : UpdatedTimes]] : n \in 0..MaxRepos}

Repository(j, l) ==
  [Owner |-> Target, Name |-> RepoNames[j],
   LastActivity |-> l.LastActivity, IsArchived |-> l.IsArchived]

\* Client.ListRepositories and main's check of its error.  outcome "err" is a
\* failed page request that still carries a response, "noresp" one without.
ListRepositories ==
  /\ pc = "list"
  /\ \E outcome \in {"ok", "err", "noresp"}, l \in Listings :
       LET err == IF outcome = "ok" THEN NoErr ELSE "list"
           listed == [j \in 1..Len(l) |-> Repository(j, l[j])]
       IN  IF ForceProcessing(err)
           THEN /\ pc' = "fatal"
                /\ UNCHANGED <<repos, i, auth>>
           ELSE IF outcome = "noresp"
           THEN /\ pc' = "crashed"
                /\ UNCHANGED <<repos, i, auth>>
           ELSE /\ pc' = "analyze"
                /\ repos' = listed
                /\ i' = 1
                /\ auth' = [j \in 1..Len(l) |-> [state |-> "not-looked", time |-> ZeroTime]]
  /\ UNCHANGED <<FORCE_PROCESSING, dryRun, nsExists, host, inactiveRepos, findErr,
                 lookup, k, step, calls, before, stepErr, archErr, results, mutating>>

-----------------------------------------------------------------------------
(* pkg/analyzer: Analyzer.FindInactiveRepositories, one loop iteration *)

IssueLists == {<<>>} \cup {<<t>> : t \in Times}

\* mutant: archived repositories are analysed like the others
SkipNone(repo) == FALSE

\* Skip already archived repositories
Skip(repo) == repo.IsArchived

\* mutant: a repository at the cutoff counts as inactive
IsInactiveOrAtCutoff(lastActivity) == ~After(lastActivity, cutoffDate)

\* Check if the repository is inactive
IsInactive(lastActivity) == Before(lastActivity, cutoffDate)

AnalyzeRepository ==
  /\ pc = "analyze"
  /\ i <= Len(repos)
  /\ LET repo == repos[i] IN
       IF Skip(repo)
       THEN /\ i' = i + 1
            /\ lookup' = NoLookup
            /\ UNCHANGED <<pc, inactiveRepos, findErr, auth>>
       ELSE \E fetchOk \in BOOLEAN, issuesOk \in BOOLEAN, issues \in IssueLists :
            \E pushedAt \in IF fetchOk THEN Times ELSE {ZeroTime} :
              LET r == GetLastActivity(fetchOk, pushedAt, issuesOk, issues)
                  looked == IF fetchOk
                            THEN [state |-> "ok",
                                  time |-> Authoritative(pushedAt, issuesOk, issues)]
                            ELSE [state |-> "failed", time |-> ZeroTime]
              IN  /\ auth' = [auth EXCEPT ![i] = looked]
                  /\ lookup' = [made |-> TRUE, fetchOk |-> fetchOk,
                                pushedAt |-> pushedAt, issuesOk |-> issuesOk,
                                issues |-> issues, time |-> r.time, err |-> r.err]
                  /\ IF ForceProcessing(r.err)
                     THEN /\ inactiveRepos' = <<>>
                          /\ findErr' = "failed to check activity"
                          /\ pc' = "analyzed"
                          /\ UNCHANGED i
                     ELSE /\ inactiveRepos' =
                               IF IsInactive(r.time)
                               THEN Append(inactiveRepos,
                                           [repo EXCEPT !.LastActivity = r.time])
                               ELSE inactiveRepos
                          /\ i' = i + 1
                          /\ UNCHANGED <<pc, findErr>>
  /\ UNCHANGED <<FORCE_PROCESSING, dryRun, nsExists, host, repos,
                 k, step, calls, before, stepErr, archErr, results, mutating>>

\* mutant: the analysis may return before the end of the listing
AnalyzeReturnEarly ==
  /\ pc = "analyze"
  /\ pc' = "analyzed"
  /\ lookup' = NoLookup
  /\ UNCHANGED <<FORCE_PROCESSING, dryRun, nsExists, host, repos, i, inactiveRepos,
                 findErr, auth, k, step, calls, before, stepErr, archErr, results, mutating>>

AnalyzeReturn ==
  /\ pc = "analyze"
  /\ i > Len(repos)
  /\ pc' = "analyzed"
  /\ lookup' = NoLookup
  /\ UNCHANGED <<FORCE_PROCESSING, dryRun, nsExists, host, repos, i, inactiveRepos,
                 findErr, auth, k, step, calls, before, stepErr, archErr, results, mutating>>

-----------------------------------------------------------------------------
(* main: after the analysis *)

\* mutant: the dry-run flag is not consulted
MainAfterAnalysisNoDryRun ==
  /\ pc = "analyzed"
  /\ IF ForceProcessing(findErr)
     THEN pc' = "fatal" /\ UNCHANGED k
     ELSE IF Len(inactiveRepos) = 0
     THEN pc' = "done" /\ UNCHANGED k
     ELSE pc' = "archive" /\ k' = 1
  /\ UNCHANGED <<FORCE_PROCESSING, dryRun, nsExists, host, repos, i, inactiveRepos,
                 findErr, auth, lookup, step, calls, before, stepErr, archErr,
                 results, mutating>>

MainAfterAnalysis ==
  /\ pc = "analyzed"
  /\ IF ForceProcessing(findErr)
     THEN pc' = "fatal" /\ UNCHANGED k
     ELSE IF Len(inactiveRepos) = 0
     THEN pc' = "done" /\ UNCHANGED k
     ELSE IF dryRun
     THEN pc' = "done" /\ UNCHANGED k
     ELSE pc' = "archive" /\ k' = 1
  /\ UNCHANGED <<FORCE_PROCESSING, dryRun, nsExists, host, repos, i, inactiveRepos,
                 findErr, auth, lookup, step, calls, before, stepErr, archErr,
                 results, mutating>>

\* mutant: the archive loop runs over the listing
repoNameOfListing == repos[k].Name

repoName == inactiveRepos[k].Name

\* main's archive loop: call ArchiveRepository for the next inactive repository,
\* or leave the loop.
MainLoop ==
  /\ pc = "archive"
  /\ step = "idle"
  /\ IF k <= Len(inactiveRepos)
     THEN /\ step' = "namespace"
          /\ before' = host[repoName]
          /\ UNCHANGED pc
     ELSE /\ pc' = "done"
          /\ UNCHANGED <<step, before>>
  /\ UNCHANGED <<FORCE_PROCESSING, dryRun, nsExists, host, repos, i, inactiveRepos,
                 findErr, auth, lookup, k, calls, stepErr, archErr, results, mutating>>

\* mutant: a failed archive ends the run
MainLoopReturnHalt ==
  /\ pc = "archive"
  /\ step = "returned"
  /\ results' = Append(results,
                       [name |-> repoName, err |-> archErr,
                        reported |-> IF ForceProcessing(archErr)
                                     THEN "failed" ELSE "archived"])
  /\ IF ForceProcessing(archErr)
     THEN pc' = "fatal" /\ UNCHANGED k
     ELSE k' = k + 1 /\ UNCHANGED pc
  /\ step' = "idle"
  /\ calls' = <<>>
  /\ before' = NoHost
  /\ stepErr' = NoErr
  /\ archErr' = NoErr
  /\ UNCHANGED <<FORCE_PROCESSING, dryRun, nsExists, host, repos, i, inactiveRepos,
                 findErr, auth, lookup, mutating>>

\* main's handling of the error ArchiveRepository returned: both branches go
\* on with the next repository.
MainLoopReturn ==
  /\ pc = "archive"
  /\ step = "returned"
  /\ results' = Append(results,
                       [name |-> repoName, err |-> archErr,
                        reported |-> IF ForceProcessing(archErr)
                                     THEN "failed" ELSE "archived"])
  /\ k' = k + 1
  /\ step' = "idle"
  /\ calls' = <<>>
  /\ before' = NoHost
  /\ stepErr' = NoErr
  /\ archErr' = NoErr
  /\ UNCHANGED <<FORCE_PROCESSING, dryRun, nsExists, host, pc, repos, i, inactiveRepos,
                 findErr, auth, lookup, mutating>>

-----------------------------------------------------------------------------
(* pkg/archiver: Archiver.ArchiveRepository(ctx, target, target-archive,   *)
(* inactiveRepos[k].Name), one action per numbered step                    *)

\* mutant: the error of a step is never returned
GateContinue(err, wrapped, next) ==
  stepErr' = err /\ step' = next /\ UNCHANGED archErr

\* mutant: the error of a step is fatal whatever the force flag
GateStrict(err, wrapped, next) ==
  /\ stepErr' = err
  /\ IF err # NoErr
     THEN step' = "returned" /\ archErr' = wrapped
     ELSE step' = next /\ UNCHANGED archErr

\* mutant: a failed step is tried again
GateRetry(err, wrapped, next) ==
  /\ stepErr' = err
  /\ UNCHANGED archErr
  /\ IF ForceProcessing(err) THEN UNCHANGED step ELSE step' = next

\* what ArchiveRepository does with the error of a step: return it wrapped,
\* or go on to the step `next`
Gate(err, wrapped, next) ==
  /\ stepErr' = err
  /\ IF ForceProcessing(err)
     THEN step' = "returned" /\ archErr' = wrapped
     ELSE step' = next /\ UNCHANGED archErr

\* 1. Create archive namespace if it doesn't exist
StepNamespace ==
  /\ pc = "archive"
  /\ step = "namespace"
  /\ \E orgOk \in BOOLEAN, userOk \in BOOLEAN :
       /\ (orgOk \/ userOk) => nsExists
       /\ LET r == CreateArchiveNamespace(ArchiveNamespace, orgOk, userOk) IN
            /\ calls' = calls \o r.calls
            /\ Gate(r.err, "failed to create archive namespace", "fork")
  /\ UNCHANGED <<FORCE_PROCESSING, dryRun, nsExists, host, pc, repos, i, inactiveRepos,
                 findErr, auth, lookup, k, before, results, mutating>>

\* 2. Fork the repository to the archive namespace
StepFork ==
  /\ pc = "archive"
  /\ step = "fork"
  /\ \E probeOk \in BOOLEAN, createOk \in BOOLEAN :
       /\ probeOk => (nsExists /\ host[repoName].fork)
       /\ createOk => (nsExists /\ host[repoName].orig)
       /\ LET r == ForkRepository(Target, repoName, ArchiveNamespace,
                                  host[repoName], probeOk, createOk) IN
            /\ calls' = calls \o r.calls
            /\ host' = [host EXCEPT ![repoName] = r.h]
            /\ mutating' = mutating \cup Mutations(r.calls)
            /\ Gate(r.err, "failed to fork repository", "wait")
  /\ UNCHANGED <<FORCE_PROCESSING, dryRun, nsExists, pc, repos, i, inactiveRepos,
                 findErr, auth, lookup, k, before, results>>

\* mutant: no propagation wait
StepWaitNone ==
  /\ pc = "archive"
  /\ step = "wait"
  /\ step' = "delete"
  /\ UNCHANGED <<FORCE_PROCESSING, dryRun, nsExists, host, pc, repos, i, inactiveRepos,
                 findErr, auth, lookup, k, calls, before, stepErr, archErr,
                 results, mutating>>

\* Wait for the fork to be created
StepWait ==
  /\ pc = "archive"
  /\ step = "wait"
  /\ calls' = Append(calls, Call("ArchiveRepository", "time.Sleep", "", "", TRUE))
  /\ step' = "delete"
  /\ UNCHANGED <<FORCE_PROCESSING, dryRun, nsExists, host, pc, repos, i, inactiveRepos,
                 findErr, auth, lookup, k, before, stepErr, archErr, results, mutating>>

\* 3. Delete the original repository
StepDelete ==
  /\ pc = "archive"
  /\ step = "delete"
  /\ \E deleteOk \in BOOLEAN :
       /\ deleteOk => host[repoName].orig
       /\ LET r == DeleteRepository(Target, repoName, host[repoName], deleteOk) IN
            /\ calls' = calls \o r.calls
            /\ host' = [host EXCEPT ![repoName] = r.h]
            /\ mutating' = mutating \cup Mutations(r.calls)
            /\ Gate(r.err, "failed to delete original repository", "setarchived")
  /\ UNCHANGED <<FORCE_PROCESSING, dryRun, nsExists, pc, repos, i, inactiveRepos,
                 findErr, auth, lookup, k, before, results>>

\* 4. Set the archived status to true on the forked repository
StepSetArchived ==
  /\ pc = "archive"
  /\ step = "setarchived"
  /\ \E getOk \in BOOLEAN, editOk \in BOOLEAN :
       /\ (getOk \/ editOk) => (nsExists /\ host[repoName].fork)
       /\ LET r == SetArchiveStatus(ArchiveNamespace, repoName, TRUE, host[repoName],
                                    getOk, editOk) IN
            /\ calls' = calls \o r.calls
            /\ host' = [host EXCEPT ![repoName] = r.h]
            /\ mutating' = mutating \cup Mutations(r.calls)
            /\ Gate(r.err, "failed to set archived status", "returned")
  /\ UNCHANGED <<FORCE_PROCESSING, dryRun, nsExists, pc, repos, i, inactiveRepos,
                 findErr, auth, lookup, k, before, results>>

-----------------------------------------------------------------------------

Next ==
  \/ ListRepositories
  \/ AnalyzeRepository
  \/ AnalyzeReturn
  \/ MainAfterAnalysis
  \/ MainLoop
  \/ MainLoopReturn
  \/ StepNamespace
  \/ StepFork
  \/ StepWait
  \/ StepDelete
  \/ StepSetArchived

Spec == Init /\ [][Next]_vars

-----------------------------------------------------------------------------
(* Vocabulary of the properties *)

InArchive == pc = "archive" /\ step # "idle"

\* positions of the log `calls`
Pos == 1..Len(calls)

IsProbe(c) == c.by = "ForkRepository" /\ c.op = "Repositories.Get"

\* the remote call whose failure makes a step of the transaction fail
FailsStep(c) == ~c.ok /\ ~IsProbe(c) /\ c.op # "Organizations.Get"

StepError(by) ==
  CASE by = "CreateArchiveNamespace" -> "failed to create archive namespace"
    [] by = "ForkRepository" -> "failed to fork repository"
    [] by = "DeleteRepository" -> "failed to delete original repository"
    [] by = "SetArchiveStatus" -> "failed to set archived status"

StepRank(by) ==
  CASE by = "CreateArchiveNamespace" -> 1
    [] by = "ForkRepository" -> 2
    [] by = "ArchiveRepository" -> 3
    [] by = "DeleteRepository" -> 4
    [] by = "SetArchiveStatus" -> 5

Made(by) == \E j \in Pos : calls[j].by = by

\* index in the listing of the repository called name
IndexOf(name) == CHOOSE j \in 1..Len(repos) : repos[j].Name = name

-----------------------------------------------------------------------------
\* C1: with the force flag unset, the remote call that makes a step of
\* ArchiveRepository fail is the last call of the transaction, the
\* transaction has returned, and the error it returned names that step; and
\* the delete of the original is only ever issued after the existence probe
\* or the fork creation succeeded.
C1_HaltsAtFailedStep ==
  (~FORCE_PROCESSING /\ InArchive) =>
    /\ \A j \in Pos :
         FailsStep(calls[j]) =>
           /\ j = Len(calls)
           /\ step = "returned"
           /\ archErr = StepError(calls[j].by)
    /\ \A j \in Pos :
         calls[j].op = "Repositories.Delete" =>
           \E m \in 1..(j - 1) : calls[m].by = "ForkRepository" /\ calls[m].ok

\* a transaction that halted at a failed delete, without force
C1_Witness ==
  /\ ~FORCE_PROCESSING
  /\ InArchive
  /\ step = "returned"
  /\ \E j \in Pos : calls[j].op = "Repositories.Delete" /\ ~calls[j].ok
  /\ archErr = "failed to delete original repository"

\* C2 (as claimed): when the archive namespace is found neither as an
\* organization nor as a user, the transaction has returned the
\* namespace error and made no further call, whatever the force flag.
C2_NamespaceFatalAlways ==
  InArchive =>
    \A j \in Pos :
      (calls[j].op = "Users.Get" /\ ~calls[j].ok) =>
        /\ j = Len(calls)
        /\ step = "returned"
        /\ archErr = "failed to create archive namespace"

C3_Sequence ==
  <<Call("ForkRepository", "Repositories.Get", ArchiveNamespace, repoName, FALSE),
    Call("ForkRepository", "Repositories.CreateFork", Target, repoName, TRUE),
    Call("ArchiveRepository", "time.Sleep", "", "", TRUE),
    Call("DeleteRepository", "Repositories.Delete", Target, repoName, TRUE),
    Call("SetArchiveStatus", "Repositories.Get", ArchiveNamespace, repoName, TRUE),
    Call("SetArchiveStatus", "Repositories.Edit", ArchiveNamespace, repoName, TRUE)>>

C3_Verified ==
  { <<Call("CreateArchiveNamespace", "Organizations.Get", ArchiveNamespace, "", TRUE)>>,
    <<Call("CreateArchiveNamespace", "Organizations.Get", ArchiveNamespace, "", FALSE),
      Call("CreateArchiveNamespace", "Users.Get", ArchiveNamespace, "", TRUE)>> }

C3_AllSucceeded ==
  \A j \in Pos : calls[j].ok \/ IsProbe(calls[j]) \/ calls[j].op = "Organizations.Get"

\* C3: when the copy in the archive namespace did not exist and every remote
\* call succeeded, the returned transaction made exactly the calls verify
\* namespace, probe, fork, wait, delete owner/repo, get and edit
\* archive/repo, in this order, returned no error, and left the original
\* deleted and the fork archived; and in every state of a transaction the
\* calls made so far are in the order of the steps.
C3_OrderedSuccess ==
  InArchive =>
    /\ \A a \in Pos : \A b \in Pos :
         a < b => StepRank(calls[a].by) <= StepRank(calls[b].by)
    /\ (step = "returned" /\ ~before.fork /\ C3_AllSucceeded) =>
         /\ \E v \in C3_Verified : calls = v \o C3_Sequence
         /\ archErr = NoErr
         /\ host[repoName] = [orig |-> FALSE, fork |-> TRUE, archived |-> TRUE]

\* a returned transaction on a target that did not exist, all calls succeeded
C3_Witness ==
  /\ InArchive
  /\ step = "returned"
  /\ ~before.fork
  /\ C3_AllSucceeded
  /\ host[repoName].archived

C4_ProbeOk == \E j \in Pos : IsProbe(calls[j]) /\ calls[j].ok

\* C4 (as claimed): a returned transaction whose existence probe succeeded
\* made no fork-creation call, did not fail at the fork step, and made the
\* propagation wait, the delete of the original and the set-archived calls.
C4_SkipsAndCompletes ==
  (InArchive /\ step = "returned" /\ C4_ProbeOk) =>
    /\ \A j \in Pos : calls[j].op # "Repositories.CreateFork"
    /\ archErr # "failed to fork repository"
    /\ Made("ArchiveRepository")
    /\ Made("DeleteRepository")
    /\ Made("SetArchiveStatus")

\* C4 (amended): ... and made the propagation wait and the delete of the
\* original, and the set-archived calls whenever the delete succeeded or the
\* force flag is set.
C4_SkipsAndProceeds ==
  (InArchive /\ step = "returned" /\ C4_ProbeOk) =>
    /\ \A j \in Pos : calls[j].op # "Repositories.CreateFork"
    /\ archErr # "failed to fork repository"
    /\ Made("ArchiveRepository")
    /\ Made("DeleteRepository")
    /\ (FORCE_PROCESSING \/ \E j \in Pos : calls[j].op = "Repositories.Delete" /\ calls[j].ok)
         => Made("SetArchiveStatus")

\* a returned transaction that skipped the fork and went through to the end
C4_Witness ==
  /\ InArchive
  /\ step = "returned"
  /\ C4_ProbeOk
  /\ Made("SetArchiveStatus")
  /\ host[repoName].archived

\* C5: with the force flag set, a returned transaction has made the calls
\* of every step and returns no error: a failed fork creation is followed
\* by the delete of the original, a failed delete by the set-archived call.
C5_ForceContinues ==
  (FORCE_PROCESSING /\ InArchive /\ step = "returned") =>
    /\ archErr = NoErr
    /\ Made("ForkRepository")
    /\ Made("DeleteRepository")
    /\ Made("SetArchiveStatus")
    /\ \A j \in Pos :
         (calls[j].op = "Repositories.CreateFork" /\ ~calls[j].ok)
           => \E m \in Pos : m > j /\ calls[m].op = "Repositories.Delete"
    /\ \A j \in Pos :
         (calls[j].op = "Repositories.Delete" /\ ~calls[j].ok)
           => \E m \in Pos : m > j /\ calls[m].by = "SetArchiveStatus"

\* a forced transaction whose fork creation and delete both failed
C5_Witness ==
  /\ FORCE_PROCESSING
  /\ InArchive
  /\ step = "returned"
  /\ \E j \in Pos : calls[j].op = "Repositories.CreateFork" /\ ~calls[j].ok
  /\ \E j \in Pos : calls[j].op = "Repositories.Delete" /\ ~calls[j].ok

C6_HostCallErrors ==
  {StepError("ForkRepository"), StepError("DeleteRepository"), StepError("SetArchiveStatus")}

\* C6 (as claimed): with the force flag unset, an ArchiveRepository call
\* that failed at the fork, the delete or the flag update is the last one
\* the driver makes.
C6_FailureHaltsRun ==
  ~FORCE_PROCESSING =>
    \A j \in 1..Len(results) :
      results[j].err \in C6_HostCallErrors => (j = Len(results) /\ step = "idle")

\* C6 (amended): with the force flag unset, a failed ArchiveRepository call
\* ends only that repository's transaction: when the driver has left the
\* archive loop it has called ArchiveRepository for every inactive
\* repository, in order, whether or not earlier calls failed.
C6_FailureSkipsToNext ==
  (~FORCE_PROCESSING /\ k > 0) =>
    /\ Len(results) <= Len(inactiveRepos)
    /\ \A j \in 1..Len(results) :
         /\ results[j].name = inactiveRepos[j].Name
         /\ results[j].reported = "failed" <=> results[j].err # NoErr
    /\ pc # "archive" => (pc = "done" /\ Len(results) = Len(inactiveRepos))

\* the run ended after a failed archive of the first of two repositories
C6_Witness ==
  /\ ~FORCE_PROCESSING
  /\ pc = "done"
  /\ Len(results) = 2
  /\ results[1].err \in C6_HostCallErrors

\* C7: while the driver lists and analyses, and in every state of a dry
\* run, no mutating call has been issued and the host is as it was.
C7_NoMutationBeforeArchive ==
  (pc \in {"list", "analyze", "analyzed"} \/ dryRun) =>
    /\ mutating = {}
    /\ calls = <<>>
    /\ step = "idle"
    /\ \A n \in Names : host[n].orig /\ ~host[n].archived

\* a dry run that ended with inactive repositories found
C7_Witness ==
  /\ dryRun
  /\ pc = "done"
  /\ Len(inactiveRepos) > 0

\* C8: a listed repository with IsArchived set is never in the analyzer's
\* result and no activity lookup is made for it.
C8_ArchivedSkipped ==
  \A j \in 1..Len(repos) :
    repos[j].IsArchived =>
      /\ auth[j].state = "not-looked"
      /\ \A m \in 1..Len(inactiveRepos) : inactiveRepos[m].Name # repos[j].Name

\* the analysis returned a result and passed over an archived repository
C8_Witness ==
  /\ pc = "analyzed"
  /\ Len(inactiveRepos) > 0
  /\ \E j \in 1..Len(repos) : repos[j].IsArchived

C9_Selected ==
  SelectSeq([j \in 1..Len(repos) |-> j],
            LAMBDA j : ~repos[j].IsArchived /\ auth[j].time < cutoffDate)

C9_Expected ==
  [m \in 1..Len(C9_Selected) |->
     [repos[C9_Selected[m]] EXCEPT !.LastActivity = auth[C9_Selected[m]].time]]

\* C9: when no activity lookup failed, the analyzer returns the
\* non-archived repositories of the listing whose authoritative last
\* activity is strictly before the cutoff, in listing order, each carrying
\* that last activity.
C9_ExactSubsequence ==
  (pc = "analyzed" /\ \A j \in 1..Len(repos) : auth[j].state # "failed") =>
    /\ findErr = NoErr
    /\ inactiveRepos = C9_Expected

\* an analysis without failed lookup that kept one repository, dropped one
\* at the cutoff
C9_Witness ==
  /\ pc = "analyzed"
  /\ \A j \in 1..Len(repos) : auth[j].state = "ok"
  /\ Len(inactiveRepos) = 1
  /\ \E j \in 1..Len(repos) : auth[j].time = cutoffDate

\* C10 (as claimed): every repository in the analyzer's result had its
\* authoritative last activity obtained, carries it, and it is before the
\* cutoff.
C10_ResultAuthoritative ==
  \A m \in 1..Len(inactiveRepos) :
    LET j == IndexOf(inactiveRepos[m].Name) IN
      /\ auth[j].state = "ok"
      /\ inactiveRepos[m].LastActivity = auth[j].time
      /\ auth[j].time < cutoffDate

\* C11: with the force flag unset, once the repository fetch of an activity
\* lookup has failed, FindInactiveRepositories has returned an error and
\* an empty result, and no repository after the failed one has been
\* looked up.
C11_AbortsOnFetchFailure ==
  ~FORCE_PROCESSING =>
    \A j \in 1..Len(auth) :
      auth[j].state = "failed" =>
        /\ pc \in {"analyzed", "fatal"}
        /\ findErr # NoErr
        /\ inactiveRepos = <<>>
        /\ i = j
        /\ \A m \in (j + 1)..Len(auth) : auth[m].state = "not-looked"

\* the lookup of the second repository failed after the first one had been
\* classified as inactive
C11_Witness ==
  /\ ~FORCE_PROCESSING
  /\ Len(auth) = 2
  /\ auth[1].state = "ok"
  /\ auth[1].time < cutoffDate
  /\ auth[2].state = "failed"
  /\ pc = "analyzed"

C12_Errors == {NoErr, "failed to fork repository", "archive namespace does not exist"}

\* C12: in every state ForceProcessing reports an error as fatal exactly
\* when the error is present and the force flag is unset, and no step of the
\* program changes the force flag.
C12_Resolver ==
  /\ [](\A e \in C12_Errors : ForceProcessing(e) <=> (e # NoErr /\ ~FORCE_PROCESSING))
  /\ [][FORCE_PROCESSING' = FORCE_PROCESSING]_vars

\* under force, a step whose client call returned an error went on
C12_Witness ==
  /\ FORCE_PROCESSING
  /\ InArchive
  /\ stepErr # NoErr
  /\ step = "returned"
  /\ archErr = NoErr

C13_Later(t, u) == IF t >= u THEN t ELSE u

\* C13: a GetLastActivity call whose repository fetch succeeded returns no
\* error and the later of the push time and the update time of the most
\* recently updated issue, or the push time alone when the issue query failed
\* or returned no issue, whatever the force flag.
C13_LaterOfPushAndIssue ==
  (lookup.made /\ lookup.fetchOk) =>
    /\ lookup.err = NoErr
    /\ lookup.time = IF lookup.issuesOk /\ lookup.issues # <<>>
                     THEN C13_Later(lookup.pushedAt, lookup.issues[1])
                     ELSE lookup.pushedAt

\* under force, a lookup whose issue query failed while the host held an
\* issue newer than the push: the push time is returned, without an error
C13_Witness ==
  /\ FORCE_PROCESSING
  /\ lookup.made
  /\ lookup.fetchOk
  /\ ~lookup.issuesOk
  /\ lookup.issues # <<>>
  /\ lookup.issues[1] > lookup.pushedAt
  /\ lookup.time = lookup.pushedAt
  /\ lookup.err = NoErr

\* C14: no step of the program removes a copy in the archive namespace that
\* exists, and no step brings back an original that has been deleted,
\* whichever later step fails.
C14_NoCompensation ==
  [][\A n \in Names :
       /\ host[n].fork => host'[n].fork
       /\ ~host[n].orig => ~host'[n].orig]_vars

\* the transaction created the fork, then failed to delete the original and
\* returned: the fork is still there
C14_Witness ==
  /\ InArchive
  /\ step = "returned"
  /\ archErr = "failed to delete original repository"
  /\ ~before.fork
  /\ \E j \in Pos : calls[j].op = "Repositories.CreateFork" /\ calls[j].ok
  /\ host[repoName].fork
  /\ host[repoName].orig

C15_Gets == {j \in Pos : calls[j].by = "SetArchiveStatus" /\ calls[j].op = "Repositories.Get"}

C15_Edits == {j \in Pos : calls[j].op = "Repositories.Edit"}

\* C15: for both values of the force flag, when the fetch of SetArchiveStatus
\* gave no repository object, SetArchiveStatus returned an error and issued no
\* Repositories.Edit; and every Repositories.Edit of the transaction is for
\* ArchiveNamespace/repoName, follows a successful fetch, and leaves the
\* archived flag of that repository true when it succeeds.
C15_NilObjectNoUpdate ==
  InArchive =>
    /\ \A j \in C15_Gets :
         ~calls[j].ok =>
           /\ C15_Edits = {}
           /\ j = Len(calls)
           /\ step = "returned"
           /\ stepErr # NoErr
    /\ \A j \in C15_Edits :
         /\ calls[j].owner = ArchiveNamespace
         /\ calls[j].owner # Target
         /\ calls[j].name = repoName
         /\ j - 1 \in C15_Gets
         /\ calls[j - 1].ok
         /\ calls[j].ok => host[repoName].archived

\* under force, the fetch of the set-archived step failed
C15_Witness ==
  /\ FORCE_PROCESSING
  /\ InArchive
  /\ step = "returned"
  /\ \E j \in C15_Gets : ~calls[j].ok
  /\ stepErr = "repository object is nil"

C16_Rank(s) ==
  CASE s = "idle" -> 0
    [] s = "namespace" -> 1
    [] s = "fork" -> 2
    [] s = "wait" -> 3
    [] s = "delete" -> 4
    [] s = "setarchived" -> 5
    [] s = "returned" -> 6

C16_Ops == {<<"CreateArchiveNamespace", "Organizations.Get">>,
            <<"CreateArchiveNamespace", "Users.Get">>,
            <<"ForkRepository", "Repositories.Get">>,
            <<"ForkRepository", "Repositories.CreateFork">>,
            <<"ArchiveRepository", "time.Sleep">>,
            <<"DeleteRepository", "Repositories.Delete">>,
            <<"SetArchiveStatus", "Repositories.Get">>,
            <<"SetArchiveStatus", "Repositories.Edit">>}

C16_Count(o) == Cardinality({j \in Pos : <<calls[j].by, calls[j].op>> = o})

\* C16: within one ArchiveRepository call every remote call of every step
\* has been issued at most once; a call that has not returned can always take
\* a step; and every step of a call moves it strictly forward in the order
\* namespace, fork, wait, delete, set-archived, returned, so that a call
\* returns after at most six steps, whatever the remote outcomes and the
\* force flag.
C16_NoRetryTerminates ==
  /\ [](InArchive =>
          /\ \A j \in Pos : <<calls[j].by, calls[j].op>> \in C16_Ops
          /\ \A o \in C16_Ops : C16_Count(o) <= 1
          /\ step # "returned" =>
               ENABLED (StepNamespace \/ StepFork \/ StepWait \/ StepDelete
                          \/ StepSetArchived))
  /\ [][(InArchive /\ step # "returned") => C16_Rank(step') > C16_Rank(step)]_vars

\* under force a call in which every remote call failed has returned
C16_Witness ==
  /\ FORCE_PROCESSING
  /\ InArchive
  /\ step = "returned"
  /\ Len(calls) = 7
  /\ \A j \in Pos : calls[j].op # "time.Sleep" => ~calls[j].ok

C17_ArchiveStarted ==
  \/ pc = "archive"
  \/ step # "idle"
  \/ calls # <<>>
  \/ results # <<>>
  \/ mutating # {}

\* C17: an archive call is only ever made after FindInactiveRepositories
\* has gone through the whole listing and returned without an error; a failed
\* FindInactiveRepositories with the force flag unset is followed by no
\* archive call; during an archive call exactly the calls before it have
\* finished and all its remote calls are its own; and the loop only moves to
\* the next repository, by one, from a call that has returned, starting the
\* next call with an empty call log.
C17_StrictlySequential ==
  /\ [](/\ C17_ArchiveStarted => (i > Len(repos) /\ findErr = NoErr /\ k >= 1)
        /\ (pc \in {"list", "analyze", "analyzed"}) => ~C17_ArchiveStarted
        /\ (~FORCE_PROCESSING /\ findErr # NoErr) =>
             (~C17_ArchiveStarted /\ pc \in {"analyzed", "fatal"})
        /\ pc = "archive" => Len(results) = k - 1
        /\ (pc = "archive" /\ step = "idle") => calls = <<>>
        /\ InArchive =>
             \A j \in Pos : calls[j].name \in {repoName, ""})
  /\ [][(k > 0 /\ k' # k) =>
          (step = "returned" /\ step' = "idle" /\ k' = k + 1 /\ calls' = <<>>)]_vars
  /\ [][(step = "idle" /\ step' # "idle") =>
          (pc = "archive" /\ step' = "namespace" /\ calls = <<>>)]_vars

\* the second archive call of a run is under way
C17_Witness ==
  /\ InArchive
  /\ k = 2
  /\ Len(results) = 1
  /\ calls # <<>>
  /\ i > Len(repos)

C18_InactiveNames(n) == {inactiveRepos[j].Name : j \in 1..n}

C18_Passed == IF InArchive THEN C18_InactiveNames(k) ELSE C18_InactiveNames(Len(results))

\* C18: the finished archive calls are, in order and one each, for the
\* first repositories that FindInactiveRepositories returned, the running
\* call is for the next one, the returned repositories are pairwise distinct
\* and come from the listing; every fork, delete and archived-flag update of
\* the run names a repository passed to ArchiveRepository, and none names a
\* repository listed as archived or classified as active.
C18_OnlyInactiveArchived ==
  /\ Len(results) <= Len(inactiveRepos)
  /\ \A j \in 1..Len(results) : results[j].name = inactiveRepos[j].Name
  /\ InArchive => (k = Len(results) + 1 /\ k <= Len(inactiveRepos))
  /\ \A j, m \in 1..Len(inactiveRepos) :
       inactiveRepos[j].Name = inactiveRepos[m].Name => j = m
  /\ \A j \in 1..Len(inactiveRepos) :
       \E m \in 1..Len(repos) : repos[m].Name = inactiveRepos[j].Name /\ m < i
  /\ \A c \in mutating : c.name \in C18_Passed
  /\ \A j \in 1..Len(repos) :
       (\/ repos[j].IsArchived
        \/ (j < i /\ repos[j].Name \notin C18_InactiveNames(Len(inactiveRepos)))
        \/ (auth[j].state = "ok" /\ auth[j].time >= cutoffDate)) =>
         \A c \in mutating : c.name # repos[j].Name

\* the first listed repository was classified as active, the second one has
\* been archived
C18_Witness ==
  /\ Len(repos) = 2
  /\ auth[1].state = "ok"
  /\ auth[1].time >= cutoffDate
  /\ Len(results) = 1
  /\ results[1].name = repos[2].Name
  /\ \E c \in mutating : c.op = "Repositories.Delete" /\ c.name = repos[2].Name

C19_Archived == [orig |-> FALSE, fork |-> TRUE, archived |-> TRUE]

C19_Ok(by, op, owner, name) ==
  \E j \in Pos : calls[j] = Call(by, op, owner, name, TRUE)

\* C19: with the force flag unset, when ArchiveRepository has returned nil
\* the namespace lookup succeeded as organization or as user, the existence
\* probe or the fork creation succeeded, the delete of target/repoName
\* succeeded and the update of ArchiveNamespace/repoName succeeded, so that
\* the original is gone and the copy exists and is archived; the same holds
\* of the host for every finished call that the driver logged as archived.
C19_SuccessMeansAllSucceeded ==
  ~FORCE_PROCESSING =>
    /\ (InArchive /\ step = "returned" /\ archErr = NoErr) =>
         /\ \/ C19_Ok("CreateArchiveNamespace", "Organizations.Get", ArchiveNamespace, "")
            \/ C19_Ok("CreateArchiveNamespace", "Users.Get", ArchiveNamespace, "")
         /\ \/ C19_Ok("ForkRepository", "Repositories.Get", ArchiveNamespace, repoName)
            \/ C19_Ok("ForkRepository", "Repositories.CreateFork", Target, repoName)
         /\ C19_Ok("DeleteRepository", "Repositories.Delete", Target, repoName)
         /\ C19_Ok("SetArchiveStatus", "Repositories.Edit", ArchiveNamespace, repoName)
         /\ \A j \in Pos : calls[j].ok \/ IsProbe(calls[j]) \/ calls[j].op = "Organizations.Get"
         /\ host[repoName] = C19_Archived
    /\ \A j \in 1..Len(results) :
         results[j].reported = "archived" =>
           (results[j].err = NoErr /\ host[results[j].name] = C19_Archived)

\* a call that forked, deleted and updated has returned nil
C19_Witness ==
  /\ ~FORCE_PROCESSING
  /\ InArchive
  /\ step = "returned"
  /\ archErr = NoErr
  /\ C19_Ok("ForkRepository", "Repositories.CreateFork", Target, repoName)

\* C20: with the force flag set, ArchiveRepository goes through all its
\* steps and returns nil whatever the remote calls answered, the driver logs
\* every finished call as archived,
\* and a run that reaches its end has done so for every inactive repository.
C20_ForceAlwaysSucceeds ==
  FORCE_PROCESSING =>
    /\ archErr = NoErr
    /\ (InArchive /\ step = "returned") =>
         \A by \in {"CreateArchiveNamespace", "ForkRepository", "ArchiveRepository",
                     "DeleteRepository", "SetArchiveStatus"} : Made(by)
    /\ \A j \in 1..Len(results) :
         results[j].err = NoErr /\ results[j].reported = "archived"
    /\ (pc = "done" /\ ~dryRun) => Len(results) = Len(inactiveRepos)

\* without an archive namespace every remote call of the call failed; the
\* repository is untouched and logged as archived
C20_Witness ==
  /\ FORCE_PROCESSING
  /\ ~nsExists
  /\ Len(results) >= 1
  /\ results[1].reported = "archived"
  /\ host[results[1].name] = [orig |-> TRUE, fork |-> FALSE, archived |-> FALSE]

=============================================================================
